---- MODULE Spec2Model ----
(***************************************************************************)
(* DeckRec (app.py): a FastAPI service that fetches the Clash Royale card  *)
(* catalog once at import time, serves a fixed table of 8-card decks and   *)
(* optionally asks a language-model provider for a deck.                   *)
(*                                                                         *)
(* Python strings on which the code computes (strip, lower, slicing, ==)   *)
(* are sequences of one-character strings.  Strings the code only passes   *)
(* along (URLs, upstream error texts) are atomic.  Python dicts whose key  *)
(* order is observable are sequences of <<key, value>> pairs; other dicts  *)
(* are functions whose DOMAIN is the set of keys present.                  *)
(***************************************************************************)
EXTENDS Integers, Sequences, FiniteSets, TLC

VARIABLES
    pc,                 \* "import": module body not yet run; "serving": app is up
    env,                \* the process environment read at import (lines 53, 64-66)
    LLM_PROVIDER,       \* app.py:64
    OPENAI_API_KEY,     \* app.py:65
    GROQ_API_KEY,       \* app.py:66
    last_clash_error,   \* app.py:68  (_last_clash_error)
    cards_data,         \* app.py:89
    clash_gets,         \* number of GET {BASE_URL}/cards issued so far
    req,                \* the request (or call) handled last
    llm_posts,          \* the POSTs the last request sent to the provider
    resp                \* the outcome of the last request (or call)

vars == <<pc, env, LLM_PROVIDER, OPENAI_API_KEY, GROQ_API_KEY, last_clash_error,
          cards_data, clash_gets, req, llm_posts, resp>>

-----------------------------------------------------------------------------
(* Bounds of the model *)

\* longest catalog the card API returns
MaxCards == 2
\* most whitespace characters put on either side of an input string
MaxPad == 1
\* how far a provider text may exceed the excerpt length
MaxOver == 1

-----------------------------------------------------------------------------
(* Python values *)

None == [py |-> "None"]
Some(x) == [py |-> "val", v |-> x]

Min(S) == CHOOSE x \in S : \A y \in S : x <= y
Max(S) == CHOOSE x \in S : \A y \in S : y <= x

\* characters str.strip() removes (the two of them the inputs use)
Whitespace == {" ", "\t"}

UpperToLower ==
    [A |-> "a", B |-> "b", C |-> "c", D |-> "d", E |-> "e", F |-> "f", G |-> "g",
     H |-> "h", I |-> "i", J |-> "j", K |-> "k", L |-> "l", M |-> "m", N |-> "n",
     O |-> "o", P |-> "p", Q |-> "q", R |-> "r", S |-> "s", T |-> "t", U |-> "u",
     V |-> "v", W |-> "w", X |-> "x", Y |-> "y", Z |-> "z"]

\* str.strip(): drop leading and trailing whitespace, keep inner whitespace
strip(s) ==
    LET keep == {i \in 1..Len(s) : s[i] \notin Whitespace}
    IN  IF keep = {} THEN <<>> ELSE SubSeq(s, Min(keep), Max(keep))

\* str.lower()
lower(s) ==
    [i \in 1..Len(s) |-> IF s[i] \in DOMAIN UpperToLower THEN UpperToLower[s[i]] ELSE s[i]]

\* dict.get(k, default) on a dict modelled as a function
get(d, k, default) == IF k \in DOMAIN d THEN d[k] ELSE default

\* list(d.keys()), k in d, d[k] on a dict modelled as a sequence of pairs
keys(d) == [i \in 1..Len(d) |-> d[i][1]]
has_key(d, k) == \E i \in 1..Len(d) : d[i][1] = k
item(d, k) == d[Min({i \in 1..Len(d) : d[i][1] = k})][2]

-----------------------------------------------------------------------------
(* The fixed decks, app.py:122-143 *)

N_HogRider ==
    <<"H","o","g"," ","R","i","d","e","r">>
N_Knight ==
    <<"K","n","i","g","h","t">>
N_FireSpirits ==
    <<"F","i","r","e"," ","S","p","i","r","i","t","s">>
N_Zap ==
    <<"Z","a","p">>
N_Valkyrie ==
    <<"V","a","l","k","y","r","i","e">>
N_SkeletonArmy ==
    <<"S","k","e","l","e","t","o","n"," ","A","r","m","y">>
N_Arrows ==
    <<"A","r","r","o","w","s">>
N_Musketeer ==
    <<"M","u","s","k","e","t","e","e","r">>
N_MiniPEKKA ==
    <<"M","i","n","i"," ","P","E","K","K","A">>
N_Archers ==
    <<"A","r","c","h","e","r","s">>
N_Tombstone ==
    <<"T","o","m","b","s","t","o","n","e">>
N_Fireball ==
    <<"F","i","r","e","b","a","l","l">>
N_BabyDragon ==
    <<"B","a","b","y"," ","D","r","a","g","o","n">>
N_Giant ==
    <<"G","i","a","n","t">>
N_Rage ==
    <<"R","a","g","e">>
N_MegaKnight ==
    <<"M","e","g","a"," ","K","n","i","g","h","t">>
N_ElectroWizard ==
    <<"E","l","e","c","t","r","o"," ","W","i","z","a","r","d">>
N_Golem ==
    <<"G","o","l","e","m">>
N_Balloon ==
    <<"B","a","l","l","o","o","n">>
N_Miner ==
    <<"M","i","n","e","r">>
N_InfernoTower ==
    <<"I","n","f","e","r","n","o"," ","T","o","w","e","r">>
N_GoblinBarrel ==
    <<"G","o","b","l","i","n"," ","B","a","r","r","e","l">>
N_LavaHound ==
    <<"L","a","v","a"," ","H","o","u","n","d">>
N_MegaMinion ==
    <<"M","e","g","a"," ","M","i","n","i","o","n">>
N_EGiant ==
    <<"E","-","G","i","a","n","t">>
N_RamRider ==
    <<"R","a","m"," ","R","i","d","e","r">>
N_Lightning ==
    <<"L","i","g","h","t","n","i","n","g">>
N_Bandit ==
    <<"B","a","n","d","i","t">>
N_PEKKA ==
    <<"P",".","E",".","K",".","K",".","A">>
N_Tornado ==
    <<"T","o","r","n","a","d","o">>
N_GoblinGang ==
    <<"G","o","b","l","i","n"," ","G","a","n","g">>
N_RoyalHogs ==
    <<"R","o","y","a","l"," ","H","o","g","s">>
N_Zappies ==
    <<"Z","a","p","p","i","e","s">>


decks_by_bracket ==
  <<
    <<<<"<","2","0","0","0">>,
      <<
         <<<<"a","t","t","a","c","k">>,
           <<N_HogRider, N_Knight, N_FireSpirits, N_Zap, N_Valkyrie, N_SkeletonArmy, N_Arrows, N_Musketeer>>>>,
         <<<<"d","e","f","e","n","s","e">>,
           <<N_Knight, N_MiniPEKKA, N_Archers, N_Tombstone, N_Arrows, N_Fireball, N_BabyDragon, N_Valkyrie>>>>,
         <<<<"b","a","l","a","n","c","e">>,
           <<N_Giant, N_MiniPEKKA, N_Musketeer, N_Fireball, N_SkeletonArmy, N_Arrows, N_Knight, N_Zap>>>>
      >>>>,
    <<<<"2","0","0","0","-","4","0","0","0">>,
      <<
         <<<<"a","t","t","a","c","k">>,
           <<N_HogRider, N_Rage, N_MiniPEKKA, N_Valkyrie, N_Arrows, N_FireSpirits, N_Knight, N_Musketeer>>>>,
         <<<<"d","e","f","e","n","s","e">>,
           <<N_MegaKnight, N_Archers, N_Tombstone, N_Fireball, N_Arrows, N_Valkyrie, N_ElectroWizard, N_Knight>>>>,
         <<<<"b","a","l","a","n","c","e">>,
           <<N_Golem, N_Musketeer, N_Valkyrie, N_Arrows, N_Zap, N_SkeletonArmy, N_Knight, N_BabyDragon>>>>
      >>>>,
    <<<<"4","0","0","0","-","6","0","0","0">>,
      <<
         <<<<"a","t","t","a","c","k">>,
           <<N_Balloon, N_Miner, N_Zap, N_InfernoTower, N_GoblinBarrel, N_SkeletonArmy, N_Knight, N_Musketeer>>>>,
         <<<<"d","e","f","e","n","s","e">>,
           <<N_MegaKnight, N_ElectroWizard, N_Archers, N_Tombstone, N_Fireball, N_Arrows, N_Valkyrie, N_Knight>>>>,
         <<<<"b","a","l","a","n","c","e">>,
           <<N_Golem, N_LavaHound, N_Miner, N_Zap, N_Arrows, N_BabyDragon, N_Knight, N_MegaMinion>>>>
      >>>>,
    <<<<">","6","0","0","0">>,
      <<
         <<<<"a","t","t","a","c","k">>,
           <<N_EGiant, N_RamRider, N_Lightning, N_Zap, N_Bandit, N_Musketeer, N_ElectroWizard, N_SkeletonArmy>>>>,
         <<<<"d","e","f","e","n","s","e">>,
           <<N_PEKKA, N_MegaKnight, N_ElectroWizard, N_Tornado, N_Arrows, N_Fireball, N_GoblinGang, N_Valkyrie>>>>,
         <<<<"b","a","l","a","n","c","e">>,
           <<N_RoyalHogs, N_Zappies, N_Fireball, N_Zap, N_Musketeer, N_Knight, N_BabyDragon, N_ElectroWizard>>>>
      >>>>
  >>


-----------------------------------------------------------------------------
(* Card catalog, app.py:68-99 *)

\* URLs are only passed along
U1 == "https://cdn/knight-1.png"
U2 == "https://cdn/knight-2.png"

\* the records the card API may return: a dict per card, whose keys "name"
\* and "iconUrls", and "medium" inside "iconUrls", may each be missing; a name
\* that is present is a string, so that str(..) at line 96 leaves it as it is
CardRecords ==
    { [name |-> N_Knight, iconUrls |-> [medium |-> U1]],
      [name |-> <<" ","K","N","I","G","H","T">>, iconUrls |-> [medium |-> U2, large |-> "L"]],
      [name |-> N_Knight, iconUrls |-> [large |-> "L"]],
      [maxLevel |-> 14] }

Catalogs == UNION {[1..n -> CardRecords] : n \in 0..MaxCards}

\* what requests.get(url, headers=HEADERS, timeout=20) can do: raise, or
\* return a response with a status, a text and a body that r.json() either
\* fails on or turns into a JSON array or a JSON object
ClashOutcomes ==
    {[kind |-> "exception", msg |-> m] : m \in {"ConnectTimeout", ""}}
    \cup {[kind |-> "response", status |-> 403, text |-> "{\"reason\":\"accessDenied\"}",
           json |-> [is |-> "object", v |-> [reason |-> "accessDenied"]]],
          [kind |-> "response", status |-> 201, text |-> "", json |-> [is |-> "invalid"]],
          [kind |-> "response", status |-> 200, text |-> "<html>", json |-> [is |-> "invalid"]],
          [kind |-> "response", status |-> 200, text |-> "[]", json |-> [is |-> "array"]],
          [kind |-> "response", status |-> 200, text |-> "{}", json |-> [is |-> "object", v |-> <<>>]]}
    \cup {[kind |-> "response", status |-> 200, text |-> "{\"items\":[..]}",
           json |-> [is |-> "object", v |-> [items |-> c]]] : c \in Catalogs}

\* fetch_all_cards with the except branch forgetting to record the error
fetch_all_cards_silent(o) ==
    IF o.kind = "exception"
    THEN [ret |-> <<>>, err |-> None]
    ELSE IF o.status = 200
         THEN IF o.json.is = "invalid"
              THEN [ret |-> <<>>, err |-> None]
              ELSE IF o.json.is = "array"
                   THEN [ret |-> <<>>, err |-> None]
                   ELSE [ret |-> get(o.json.v, "items", <<>>), err |-> None]
         ELSE [ret |-> <<>>, err |-> Some(o.text)]

\* fetch_all_cards(): the value returned and the value left in _last_clash_error
fetch_all_cards(o) ==
    IF o.kind = "exception"
    THEN [ret |-> <<>>, err |-> Some(o.msg)]                       \* lines 83-85
    ELSE IF o.status = 200
         THEN IF o.json.is = "invalid"
              THEN [ret |-> <<>>, err |-> Some("JSONDecodeError")]  \* 79 raises, 83-85
              ELSE IF o.json.is = "array"
                   THEN [ret |-> <<>>, err |-> Some("AttributeError")] \* 80 raises, 83-85
                   ELSE [ret |-> get(o.json.v, "items", <<>>), err |-> None] \* 78-80
         ELSE [ret |-> <<>>, err |-> Some(o.text)]                  \* lines 81-82

\* get_card_image with the loop running on to the last record that matches
get_card_image_last(card_name) ==
    LET target == lower(strip(card_name))
        hits == {i \in 1..Len(cards_data) :
                   lower(strip(get(cards_data[i], "name", <<>>))) = target}
    IN  IF hits = {}
        THEN ""
        ELSE LET card == cards_data[Max(hits)]
                 icon_urls == get(card, "iconUrls", <<>>)
             IN  get(icon_urls, "medium", "")

\* get_card_image falling back to a placeholder picture
get_card_image_placeholder(card_name) ==
    LET target == lower(strip(card_name))
        hits == {i \in 1..Len(cards_data) :
                   lower(strip(get(cards_data[i], "name", <<>>))) = target}
    IN  IF hits = {}
        THEN "/static/unknown.png"
        ELSE LET card == cards_data[Min(hits)]
                 icon_urls == get(card, "iconUrls", <<>>)
             IN  get(icon_urls, "medium", "")

\* get_card_image(card_name): the loop returns at the first record that matches
get_card_image(card_name) ==
    LET target == lower(strip(card_name))
        hits == {i \in 1..Len(cards_data) :
                   lower(strip(get(cards_data[i], "name", <<>>))) = target}
    IN  IF hits = {}
        THEN ""
        ELSE LET card == cards_data[Min(hits)]
                 icon_urls == get(card, "iconUrls", <<>>)
             IN  get(icon_urls, "medium", "")

\* environment variable -> the value os.getenv(..) or default
getenv(e, k, default) == IF e[k] = None THEN default ELSE e[k].v

-----------------------------------------------------------------------------
(* Baseline endpoint, app.py:162-174 *)

HTTPException(status_code, detail) == [status |-> status_code, detail |-> detail]
Ok(body) == [status |-> 200, body |-> body]

Deck(cards) ==
    Ok([deck |-> [i \in 1..Len(cards) |->
                    [name |-> cards[i], image |-> get_card_image(cards[i])]]])

\* recommend comparing the style as typed, without .lower()
recommend_nolower(input) ==
    LET bracket == strip(input.bracket)
        style == strip(input.style)
    IN  IF ~has_key(decks_by_bracket, bracket)
        THEN HTTPException(400, [msg |-> "Invalid bracket. Use: ",
                                 list |-> keys(decks_by_bracket)])
        ELSE IF ~has_key(item(decks_by_bracket, bracket), style)
             THEN HTTPException(400, [msg |-> "Invalid style. Use: ",
                                      list |-> keys(item(decks_by_bracket, bracket))])
             ELSE Deck(item(item(decks_by_bracket, bracket), style))

\* recommend serving the bracket's first deck for a style it does not know
recommend_default_style(input) ==
    LET bracket == strip(input.bracket)
        style == lower(strip(input.style))
    IN  IF ~has_key(decks_by_bracket, bracket)
        THEN HTTPException(400, [msg |-> "Invalid bracket. Use: ",
                                 list |-> keys(decks_by_bracket)])
        ELSE IF ~has_key(item(decks_by_bracket, bracket), style)
             THEN Deck(item(decks_by_bracket, bracket)[1][2])
             ELSE Deck(item(item(decks_by_bracket, bracket), style))

recommend(input) ==
    LET bracket == strip(input.bracket)
        style == lower(strip(input.style))
    IN  IF ~has_key(decks_by_bracket, bracket)
        THEN HTTPException(400, [msg |-> "Invalid bracket. Use: ",
                                 list |-> keys(decks_by_bracket)])
        ELSE IF ~has_key(item(decks_by_bracket, bracket), style)
             THEN HTTPException(400, [msg |-> "Invalid style. Use: ",
                                      list |-> keys(item(decks_by_bracket, bracket))])
             ELSE Deck(item(item(decks_by_bracket, bracket), style))

-----------------------------------------------------------------------------
(* Inputs *)

Spaces(k) == [i \in 1..k |-> " "]
Tabs(k) == [i \in 1..k |-> "\t"]
\* s with k blanks in front and k tabs behind, for every k up to MaxPad
Padded(s) == {Spaces(k) \o s \o Tabs(k) : k \in 1..MaxPad}

BracketInputs ==
    {decks_by_bracket[i][1] : i \in 1..Len(decks_by_bracket)}
    \cup Padded(decks_by_bracket[1][1])
    \cup { <<"9","9","9","9">>, <<>>, <<"<"," ","2","0","0","0">> }

StyleInputs ==
    { <<"a","t","t","a","c","k">>, <<"d","e","f","e","n","s","e">>,
      <<"b","a","l","a","n","c","e">>, <<"A","T","T","A","C","K">>,
      <<"D","e","f","e","n","s","e">> }
    \cup Padded(<<"B","a","l","a","n","c","e">>)
    \cup { <<"a","t","a","c","k">>, <<>>, <<"a","t","t"," ","a","c","k">> }

NameInputs ==
    { N_Knight, <<"k","n","i","g","h","t">>, <<"K","N","I","G","H","T">>,
      <<"K","n","i","g","h">>, <<"K","n","i","g","h","t","s">>, N_Zap, <<>> }
    \cup Padded(N_Knight)

\* the process environment: each variable unset (None) or set
Envs ==
    { [LLM_PROVIDER |-> p, OPENAI_API_KEY |-> k[1], GROQ_API_KEY |-> k[2]] :
        p \in {None, Some(<<" ","O","p","e","n","A","I">>), Some(<<"g","r","o","q">>),
               Some(<<"a","z","u","r","e">>)},
        k \in { <<None, Some(<<"g","s","k"," ">>)>>, <<Some(<<"s","k">>), Some(<<" ">>)>> } }

-----------------------------------------------------------------------------
(* JSON values and texts, as json.loads / r.json() / json.dumps see them *)

Obj(f) == [t |-> "obj", v |-> f]
List(q) == [t |-> "list", v |-> q]
Num(n) == [t |-> "num", v |-> n]
Invalid == [t |-> "invalid"]
\* a string: its characters and what json.loads makes of them
Text(c, j) == [t |-> "str", s |-> c, json |-> j]
\* a string that is not JSON, such as a card name
Str(c) == Text(c, Invalid)

Raise == [t |-> "raise"]

\* v[k1][k2]... where a key is [key |-> "name"] and an index is [idx |-> n];
\* Raise where Python raises KeyError, IndexError or TypeError
RECURSIVE subscript(_, _)
subscript(v, path) ==
    IF path = <<>> THEN v
    ELSE LET k == Head(path)
         IN  IF "key" \in DOMAIN k
             THEN IF v.t = "obj" /\ k.key \in DOMAIN v.v
                  THEN subscript(v.v[k.key], Tail(path))
                  ELSE Raise
             ELSE IF v.t = "list" /\ k.idx < Len(v.v)
                  THEN subscript(v.v[k.idx + 1], Tail(path))
                  ELSE IF v.t = "str" /\ k.idx < Len(v.s)
                       THEN subscript(Str(<<v.s[k.idx + 1]>>), Tail(path))
                       ELSE Raise

\* json.dumps(data): some text that json.loads turns back into data
json_dumps(data) == Text(<<"{",".",".","}">>, data)

-----------------------------------------------------------------------------
(* LLM helper, app.py:180-234 *)

EXCERPT == 500
DECK_SIZE == 8

OPENAI_URL == "https://api.openai.com/v1/responses"
GROQ_URL == "https://api.groq.com/openai/v1/chat/completions"

Unhandled == [status |-> 500, detail |-> [msg |-> "Internal Server Error"]]

\* the result of a call: either a value, or an exception that ends the request
Return(x, posts) == [raised |-> FALSE, value |-> x, posts |-> posts]
Throw(e, posts) == [raised |-> TRUE, exc |-> e, posts |-> posts]

\* requests.post(..) retried once by the caller
requests_post_retry(url, model, prompt) ==
    <<[url |-> url, model |-> model, prompt |-> prompt],
      [url |-> url, model |-> model, prompt |-> prompt]>>

\* the POSTs one call of requests.post(url, headers=.., json=.., timeout=30) sends
requests_post(url, model, prompt) ==
    <<[url |-> url, model |-> model, prompt |-> prompt]>>

\* the last raise of _llm_chat with the status of the other two
provider_not_set_500 ==
    Throw(HTTPException(500, [msg |-> "LLM_PROVIDER not set."]), <<>>)

\* lines 231-234
provider_not_set ==
    Throw(HTTPException(400, [msg |-> "LLM_PROVIDER not set."]), <<>>)

\* _llm_chat(prompt), where o is what requests.post does if it is called
llm_chat(prompt, o) ==
    IF LLM_PROVIDER = <<"o","p","e","n","a","i">>
    THEN IF OPENAI_API_KEY = <<>>
         THEN Throw(HTTPException(500, [msg |-> "OPENAI_API_KEY missing in .env"]), <<>>)
         ELSE LET posts == requests_post(OPENAI_URL, "gpt-4.1-mini", prompt)
              IN  IF o.kind = "exception" THEN Throw(Unhandled, posts)
                  ELSE IF o.status >= 400
                  THEN Throw(HTTPException(500, [msg |-> "OpenAI error: ", text |-> o.text]), posts)
                  ELSE IF o.json = Invalid THEN Throw(Unhandled, posts)
                  ELSE LET text == subscript(o.json, <<[key |-> "output"], [idx |-> 0],
                                                       [key |-> "content"], [idx |-> 0],
                                                       [key |-> "text"]>>)
                       IN  IF text = Raise
                           THEN Return(json_dumps(o.json), posts)
                           ELSE Return(text, posts)
    ELSE IF LLM_PROVIDER = <<"g","r","o","q">>
    THEN IF GROQ_API_KEY = <<>>
         THEN Throw(HTTPException(500, [msg |-> "GROQ_API_KEY missing in .env"]), <<>>)
         ELSE LET posts == requests_post(GROQ_URL, "llama-3.1-70b-versatile", prompt)
              IN  IF o.kind = "exception" THEN Throw(Unhandled, posts)
                  ELSE IF o.status >= 400
                  THEN Throw(HTTPException(500, [msg |-> "Groq error: ", text |-> o.text]), posts)
                  ELSE IF o.json = Invalid THEN Throw(Unhandled, posts)
                  ELSE LET text == subscript(o.json, <<[key |-> "choices"], [idx |-> 0],
                                                       [key |-> "message"], [key |-> "content"]>>)
                       IN  IF text = Raise
                           THEN Throw(Unhandled, posts)
                           ELSE Return(text, posts)
    ELSE provider_not_set

-----------------------------------------------------------------------------
(* AI endpoint, app.py:237-298 *)

\* [c.get("name") for c in cards_data if c.get("name")]
valid_cards ==
    LET named == SelectSeq(cards_data, LAMBDA c : get(c, "name", <<>>) # <<>>)
    IN  [i \in 1..Len(named) |-> named[i].name]

\* the whole of raw put into the error
excerpt_whole(raw) == raw

\* raw[:500]
excerpt(raw) == SubSeq(raw, 1, IF Len(raw) < EXCERPT THEN Len(raw) ELSE EXCERPT)

\* lines 247-298: the handler once the catalog is known to be loaded
generate(input, o) ==
    LET prompt == [valid_cards |-> valid_cards, user_pref |-> input]
        chat == llm_chat(prompt, o)
    IN  IF chat.raised
        THEN [resp |-> chat.exc, posts |-> chat.posts]
        ELSE LET raw == chat.value
                 \* a raw that is not a str makes json.loads raise TypeError,
                 \* and then raw[:500] raises inside the except block
                 result == IF raw.t = "str" THEN raw.json ELSE Invalid
                 deck_cards == IF result.t = "obj"
                               THEN get(result.v, "deck", List(<<>>))
                               ELSE Raise
                 bad == \/ result = Invalid
                        \/ result.t # "obj"
                        \/ deck_cards.t # "list"
                        \/ Len(deck_cards.v) # DECK_SIZE
             IN  IF raw.t # "str"
                 THEN [resp |-> Unhandled, posts |-> chat.posts]
                 ELSE IF bad
                 THEN [resp |-> HTTPException(500,
                                  [msg |-> "AI response was not valid JSON. Raw: ",
                                   raw |-> excerpt(raw.s)]),
                       posts |-> chat.posts]
                 \* c.strip() in get_card_image raises for a c that is not a str
                 ELSE IF \E i \in 1..Len(deck_cards.v) : deck_cards.v[i].t # "str"
                 THEN [resp |-> Unhandled, posts |-> chat.posts]
                 ELSE [resp |-> Ok([deck |-> [i \in 1..Len(deck_cards.v) |->
                                               [name |-> deck_cards.v[i],
                                                image |-> get_card_image(deck_cards.v[i].s)]],
                                    insights |-> get(result.v, "insights", List(<<>>)),
                                    playstyle_tips |-> get(result.v, "playstyle_tips", List(<<>>)),
                                    weaknesses |-> get(result.v, "weaknesses", List(<<>>))]),
                       posts |-> chat.posts]

\* recommend_ai without its guard on the catalog
recommend_ai_unguarded(input, o) == generate(input, o)

\* recommend_ai(input), where o is what the provider does if it is asked
recommend_ai(input, o) ==
    IF cards_data = <<>>
    THEN [resp |-> HTTPException(503, [msg |-> "Cards not loaded from Clash API yet. Check /debug/clash"]),
          posts |-> <<>>]
    ELSE generate(input, o)

-----------------------------------------------------------------------------
(* What the provider may answer *)

Filler(n) == [i \in 1..n |-> IF i = 1 THEN "{" ELSE "x"]

NameCycle ==
    << Str(<<"k","n","i","g","h","t">>), Str(N_Zap), Str(<<" ","K","N","I","G","H","T","\t">>) >>
\* a list of n names; shift changes their order
DeckList(n, shift) == List([i \in 1..n |-> NameCycle[((i + shift) % 3) + 1]])

DeckValues ==
    {DeckList(n, sh) : n \in {0, DECK_SIZE - 1, DECK_SIZE, DECK_SIZE + 1}, sh \in {0, 1}}
    \cup { Str(Filler(DECK_SIZE)),
           List([i \in 1..DECK_SIZE |-> IF i = 3 THEN Num(7) ELSE NameCycle[1]]) }

Tips(c) == List(<<Str(<<c>>), Str(<<c, c>>)>>)

ResultObjects ==
    {Obj([deck |-> d, insights |-> Tips("i"), playstyle_tips |-> Tips("p"), weaknesses |-> Tips("w")]) :
        d \in DeckValues}
    \cup {Obj([deck |-> DeckList(n, 0), insights |-> Str(<<"i">>)]) : n \in {DECK_SIZE, DECK_SIZE + 1}}
    \cup {Obj([insights |-> Tips("i")])}

RawLens == {0, 3, EXCERPT} \cup {EXCERPT + k : k \in 1..MaxOver}

RawTexts ==
    {Text(Filler(n), Invalid) : n \in RawLens}
    \cup {Text(<<"[","]">>, List(<<>>)), Text(<<"7">>, Num(7))}
    \cup {Text(Filler(3), r) : r \in ResultObjects}
    \cup {Text(Filler(n), Obj([deck |-> DeckList(DECK_SIZE - 1, 0)])) : n \in RawLens \ {0}}

OpenAIBody(x) == Obj([output |-> List(<<Obj([content |-> List(<<Obj([text |-> x])>>)])>>)])
GroqBody(x) == Obj([choices |-> List(<<Obj([message |-> Obj([content |-> x])])>>)])

LLMBodies ==
    {OpenAIBody(x) : x \in RawTexts \cup {Num(0)}}
    \cup {GroqBody(x) : x \in RawTexts \cup {Num(0)}}
    \cup { Invalid,
           Obj([output |-> List(<<>>)]),
           Obj([choices |-> List(<<>>)]),
           Obj([error |-> Str(<<"n","o">>)]),
           Obj([deck |-> DeckList(DECK_SIZE, 0)]) }

LLMOutcomes ==
    {[kind |-> "exception"]}
    \cup {[kind |-> "response", status |-> 200, text |-> "..", json |-> b] : b \in LLMBodies}
    \cup {[kind |-> "response", status |-> st, text |-> "rate limited", json |-> Obj([error |-> Str(<<"n","o">>)])] :
            st \in {399, 400, 429}}

AIInputs ==
    { [bracket |-> <<"<","2","0","0","0">>, style |-> <<"a","t","t","a","c","k">>,
       favorite_card |-> None, hate_card |-> None, notes |-> None],
      [bracket |-> <<"9","9","9","9">>, style |-> <<>>,
       favorite_card |-> Some(N_Knight), hate_card |-> None, notes |-> None],
      [bracket |-> <<">","6","0","0","0">>, style |-> <<"B","a","l","a","n","c","e">>,
       favorite_card |-> Some(N_Knight), hate_card |-> Some(N_Zap), notes |-> Some(<<"a","i","r">>)] }

NoRequest == [handler |-> "none"]

-----------------------------------------------------------------------------
(* The state machine *)

Init ==
    /\ pc = "import"
    /\ env \in Envs
    /\ LLM_PROVIDER = <<>>
    /\ OPENAI_API_KEY = <<>>
    /\ GROQ_API_KEY = <<>>
    /\ last_clash_error = None
    /\ cards_data = <<>>
    /\ clash_gets = 0
    /\ req = NoRequest
    /\ llm_posts = <<>>
    /\ resp = NoRequest

\* the module body: lines 64-66, then cards_data = fetch_all_cards() at line 89
Import ==
    /\ pc = "import"
    /\ pc' = "serving"
    /\ LLM_PROVIDER' = lower(strip(getenv(env, "LLM_PROVIDER", <<"n","o","n","e">>)))
    /\ OPENAI_API_KEY' = strip(getenv(env, "OPENAI_API_KEY", <<>>))
    /\ GROQ_API_KEY' = strip(getenv(env, "GROQ_API_KEY", <<>>))
    /\ \E o \in ClashOutcomes :
          /\ req' = [handler |-> "fetch_all_cards", outcome |-> o]
          /\ cards_data' = fetch_all_cards(o).ret
          /\ last_clash_error' = fetch_all_cards(o).err
    /\ clash_gets' = clash_gets + 1
    /\ resp' = NoRequest
    /\ UNCHANGED <<env, llm_posts>>

Frame == UNCHANGED <<env, LLM_PROVIDER, OPENAI_API_KEY, GROQ_API_KEY,
                     last_clash_error, cards_data, clash_gets>>

\* GET /health, lines 42-44
health ==
    /\ pc = "serving"
    /\ pc' = "responded"
    /\ req' = [handler |-> "health"]
    /\ resp' = Ok([status |-> "ok"])
    /\ llm_posts' = <<>>
    /\ Frame

\* debug_clash clearing the error it has reported
debug_clash_clearing ==
    /\ pc = "serving"
    /\ pc' = "responded"
    /\ req' = [handler |-> "debug_clash"]
    /\ resp' = Ok([last_clash_error |-> last_clash_error,
                   cards_cached |-> Len(cards_data),
                   auth_ok |-> (Len(cards_data) > 0 /\ last_clash_error = None),
                   llm_provider |-> LLM_PROVIDER,
                   has_openai_key |-> (OPENAI_API_KEY # <<>>),
                   has_groq_key |-> (GROQ_API_KEY # <<>>)])
    /\ llm_posts' = <<>>
    /\ last_clash_error' = None
    /\ UNCHANGED <<env, LLM_PROVIDER, OPENAI_API_KEY, GROQ_API_KEY, cards_data, clash_gets>>

\* GET /debug/clash, lines 102-116
debug_clash ==
    /\ pc = "serving"
    /\ pc' = "responded"
    /\ req' = [handler |-> "debug_clash"]
    /\ resp' = Ok([last_clash_error |-> last_clash_error,
                   cards_cached |-> Len(cards_data),
                   auth_ok |-> (Len(cards_data) > 0 /\ last_clash_error = None),
                   llm_provider |-> LLM_PROVIDER,
                   has_openai_key |-> (OPENAI_API_KEY # <<>>),
                   has_groq_key |-> (GROQ_API_KEY # <<>>)])
    /\ llm_posts' = <<>>
    /\ Frame

\* a call of get_card_image, as the two recommendation handlers make it
ResolveIcon ==
    /\ pc = "serving"
    /\ pc' = "responded"
    /\ \E n \in NameInputs :
          /\ req' = [handler |-> "get_card_image", card_name |-> n]
          /\ resp' = Ok(get_card_image(n))
    /\ llm_posts' = <<>>
    /\ Frame

\* POST /recommend_deck
Recommend ==
    /\ pc = "serving"
    /\ pc' = "responded"
    /\ \E b \in BracketInputs, s \in StyleInputs :
          LET input == [bracket |-> b, style |-> s]
          IN  /\ req' = [handler |-> "recommend", input |-> input]
              /\ resp' = recommend(input)
    /\ llm_posts' = <<>>
    /\ Frame

NoOutcome == [kind |-> "not called"]

\* POST /recommend_deck_ai
RecommendAi ==
    /\ pc = "serving"
    /\ pc' = "responded"
    /\ \E input \in AIInputs, o \in LLMOutcomes :
          LET r == recommend_ai(input, o)
          IN  /\ req' = [handler |-> "recommend_ai", input |-> input,
                         outcome |-> IF r.posts = <<>> THEN NoOutcome ELSE o]
              /\ resp' = r.resp
              /\ llm_posts' = r.posts
    /\ Frame

\* the response has gone out; the server takes the next request
Respond ==
    /\ pc = "responded"
    /\ pc' = "serving"
    /\ req' = NoRequest
    /\ resp' = NoRequest
    /\ llm_posts' = <<>>
    /\ Frame

Next == Import \/ health \/ debug_clash \/ ResolveIcon \/ Recommend \/ RecommendAi \/ Respond

Spec == Init /\ [][Next]_vars

-----------------------------------------------------------------------------
(* Vocabulary of the properties, defined without the operators of the code *)

Handled(h) == pc = "responded" /\ req.handler = h

IsBlank(s) == \A i \in 1..Len(s) : s[i] \in Whitespace

SameLetter(c, d) ==
    \/ c = d
    \/ c \in DOMAIN UpperToLower /\ UpperToLower[c] = d
    \/ d \in DOMAIN UpperToLower /\ UpperToLower[d] = c

\* equal but for the case of the letters
SameButCase(s, k) == Len(s) = Len(k) /\ \A i \in 1..Len(s) : SameLetter(s[i], k[i])

\* s is k in some letter case, with blanks and tabs added in front and behind
CaseVariantPadded(s, k) ==
    \E a \in 0..Len(s) : \E b \in a..Len(s) :
        /\ IsBlank(SubSeq(s, 1, a))
        /\ IsBlank(SubSeq(s, b + 1, Len(s)))
        /\ SameButCase(SubSeq(s, a + 1, b), k)

\* s without its leading and trailing whitespace
RECURSIVE Trimmed(_)
Trimmed(s) ==
    IF s = <<>> THEN s
    ELSE IF Head(s) \in Whitespace THEN Trimmed(Tail(s))
    ELSE IF s[Len(s)] \in Whitespace THEN Trimmed(SubSeq(s, 1, Len(s) - 1))
    ELSE s

BracketKeys == {decks_by_bracket[i][1] : i \in 1..Len(decks_by_bracket)}
StyleKeys == {<<"a","t","t","a","c","k">>, <<"d","e","f","e","n","s","e">>,
              <<"b","a","l","a","n","c","e">>}
\* the table's list for a pair of keys
TableDeck(b, st) ==
    LET i == CHOOSE i \in 1..Len(decks_by_bracket) : decks_by_bracket[i][1] = b
        j == CHOOSE j \in 1..Len(decks_by_bracket[i][2]) : decks_by_bracket[i][2][j][1] = st
    IN  decks_by_bracket[i][2][j][2]

NamesOf(deck) == [i \in 1..Len(deck) |-> deck[i].name]

-----------------------------------------------------------------------------
\* C1: for every bracket that is a key of decks_by_bracket and every style
\* that is one of its style keys written in any letter case with whitespace
\* around it, and whatever the catalog holds, recommend returns a deck of
\* exactly 8 entries whose names are the table's list, in the table's order.
C1_TableDeckReturned ==
    Handled("recommend") =>
        \A b \in BracketKeys, st \in StyleKeys :
            (req.input.bracket = b /\ CaseVariantPadded(req.input.style, st))
            => /\ resp.status = 200
               /\ Len(resp.body.deck) = 8
               /\ NamesOf(resp.body.deck) = TableDeck(b, st)

C1_Witness ==
    /\ Handled("recommend")
    /\ req.input.bracket \in BracketKeys
    /\ req.input.style = <<" ","B","a","l","a","n","c","e","\t">>
    /\ cards_data = <<>>
    /\ resp.status = 200
    /\ Len(resp.body.deck) = 8

-----------------------------------------------------------------------------
BracketError ==
    /\ resp.status = 400
    /\ resp.detail.msg = "Invalid bracket. Use: "
    /\ {resp.detail.list[i] : i \in 1..Len(resp.detail.list)} = BracketKeys
    /\ "body" \notin DOMAIN resp

StyleError ==
    /\ resp.status = 400
    /\ resp.detail.msg = "Invalid style. Use: "
    /\ {resp.detail.list[i] : i \in 1..Len(resp.detail.list)} = StyleKeys
    /\ "body" \notin DOMAIN resp

\* C2 as stated: a bracket that is not a key of the table gets the 400 error
\* listing the valid brackets and no deck; a bracket that is a key with a
\* style that is not a key of its sub-table gets the 400 error listing the
\* valid styles.
C2_AsStated ==
    Handled("recommend") =>
        /\ req.input.bracket \notin BracketKeys => BracketError
        /\ (req.input.bracket \in BracketKeys /\ req.input.style \notin StyleKeys)
              => StyleError

\* C2 (amended): a bracket that is not a key of the table once its surrounding
\* whitespace is removed gets the 400 error listing the valid brackets and no
\* deck, whatever the style; a bracket that is such a key, with a style that
\* is not a style key once trimmed and lower-cased, gets the 400 error listing
\* the valid styles.
C2_InvalidRejected ==
    Handled("recommend") =>
        LET bracketOk == Trimmed(req.input.bracket) \in BracketKeys
            styleOk == \E k \in StyleKeys : SameButCase(Trimmed(req.input.style), k)
        IN  /\ ~bracketOk => BracketError
            /\ (bracketOk /\ ~styleOk) => StyleError

C2_Witness ==
    /\ Handled("recommend")
    /\ req.input.bracket = <<"9","9","9","9">>
    /\ req.input.style = <<"a","t","a","c","k">>
    /\ BracketError

-----------------------------------------------------------------------------
\* what _llm_chat handed to recommend_ai, for the provider outcome of the
\* request handled last
Answer == llm_chat(<<>>, req.outcome)
Answered ==
    /\ Handled("recommend_ai")
    /\ cards_data # <<>>
    /\ req.outcome # NoOutcome
    /\ ~Answer.raised
    /\ Answer.value.t = "str"

HasDeckOf8(parsed) ==
    /\ parsed.t = "obj"
    /\ "deck" \in DOMAIN parsed.v
    /\ parsed.v.deck.t = "list"
    /\ Len(parsed.v.deck.v) = 8

EchoFields == {"insights", "playstyle_tips", "weaknesses"}

\* C3: with a non-empty catalog and a provider that answered with a text,
\* recommend_ai fails with the 500 validation error, carrying a prefix of the
\* text of at most 500 characters, when the text is not JSON or its deck is
\* not a list of exactly 8 entries; when the deck is a list of 8 names it
\* returns 8 (name, image) entries in that order and the insights,
\* playstyle_tips and weaknesses of the text as they are.
C3_ValidatedOrEchoed ==
    Answered =>
        LET raw == Answer.value
            parsed == raw.json
        IN  /\ ~HasDeckOf8(parsed) =>
                 /\ resp.status = 500
                 /\ "raw" \in DOMAIN resp.detail
                 /\ Len(resp.detail.raw) <= 500
                 /\ resp.detail.raw = SubSeq(raw.s, 1, Len(resp.detail.raw))
            /\ (HasDeckOf8(parsed) /\ \A i \in 1..8 : parsed.v.deck.v[i].t = "str") =>
                 /\ resp.status = 200
                 /\ Len(resp.body.deck) = 8
                 /\ \A i \in 1..8 :
                       /\ resp.body.deck[i].name = parsed.v.deck.v[i]
                       /\ DOMAIN resp.body.deck[i] = {"name", "image"}
                 /\ \A f \in EchoFields \cap DOMAIN parsed.v : resp.body[f] = parsed.v[f]

C3_Witness ==
    /\ Answered
    /\ HasDeckOf8(Answer.value.json)
    /\ resp.status = 200
    /\ resp.body.insights = Tips("i")
    /\ resp.body.deck[2].image = U1

-----------------------------------------------------------------------------
\* C4: whenever the cached catalog is empty, recommend_ai fails with 503 for
\* every body and every provider configuration, and has sent nothing to the
\* provider.
C4_EmptyCatalog503 ==
    (Handled("recommend_ai") /\ cards_data = <<>>) =>
        /\ resp.status = 503
        /\ llm_posts = <<>>

C4_Witness ==
    /\ Handled("recommend_ai")
    /\ cards_data = <<>>
    /\ LLM_PROVIDER = <<"o","p","e","n","a","i">>
    /\ OPENAI_API_KEY # <<>>
    /\ req.input.favorite_card # None
    /\ resp.status = 503

-----------------------------------------------------------------------------
\* C5 as stated: every call of the AI endpoint ends in a success, a 503 or a
\* 500, whatever the provider configuration.
C5_AsStated ==
    Handled("recommend_ai") => resp.status \in {200, 503, 500}

Providers == { <<"o","p","e","n","a","i">>, <<"g","r","o","q">> }

\* C5 (amended): every call of recommend_ai ends in a success, a 503 (exactly
\* when the catalog is empty), a 500, or a 400 (exactly when the catalog is
\* not empty and LLM_PROVIDER is neither openai nor groq); no other status.
C5_Statuses ==
    Handled("recommend_ai") =>
        /\ resp.status \in {200, 503, 500, 400}
        /\ resp.status = 503 <=> cards_data = <<>>
        /\ resp.status = 400 <=> (cards_data # <<>> /\ LLM_PROVIDER \notin Providers)
        /\ resp.status = 200 => "body" \in DOMAIN resp

C5_Witness ==
    /\ Handled("recommend_ai")
    /\ cards_data # <<>>
    /\ LLM_PROVIDER = <<"n","o","n","e">>
    /\ resp.status = 400

-----------------------------------------------------------------------------
Fetched == pc = "serving" /\ req.handler = "fetch_all_cards"

\* C6 as stated: fetch_all_cards returns a sequence; after a network exception
\* or a non-200 status it is empty and the last error is set; after a 200
\* response the last error is null.
C6_AsStated ==
    Fetched =>
        /\ DOMAIN cards_data = 1..Len(cards_data)
        /\ (req.outcome.kind = "exception" \/ req.outcome.status # 200) =>
              (cards_data = <<>> /\ last_clash_error # None)
        /\ (req.outcome.kind = "response" /\ req.outcome.status = 200) =>
              last_clash_error = None

\* C6 (amended): fetch_all_cards returns a sequence; after a network
\* exception, a non-200 status, or a 200 response whose body is not JSON or
\* not a JSON object it is empty and the last error is set; after a 200
\* response whose body is a JSON object the last error is null and the
\* sequence is the body's items (empty when the body has none).
C6_FetchOutcome ==
    Fetched =>
        LET o == req.outcome
            failed == \/ o.kind = "exception"
                      \/ o.status # 200
                      \/ o.json.is # "object"
        IN  /\ DOMAIN cards_data = 1..Len(cards_data)
            /\ failed => (cards_data = <<>> /\ last_clash_error # None)
            /\ ~failed =>
                  /\ last_clash_error = None
                  /\ cards_data = IF "items" \in DOMAIN o.json.v THEN o.json.v.items ELSE <<>>

C6_Witness ==
    /\ Fetched
    /\ req.outcome.kind = "response"
    /\ req.outcome.status = 200
    /\ req.outcome.json.is = "invalid"
    /\ cards_data = <<>>
    /\ last_clash_error # None

-----------------------------------------------------------------------------
MediumOf(card) ==
    IF "iconUrls" \in DOMAIN card /\ "medium" \in DOMAIN card.iconUrls
    THEN card.iconUrls.medium
    ELSE ""

First(S) == CHOOSE i \in S : \A j \in S : i <= j

\* C7 as stated: get_card_image returns the medium icon of the first record
\* whose name is the given name but for letter case, and "" when there is no
\* such record or that record has no medium icon.
C7_AsStated ==
    Handled("get_card_image") =>
        LET hits == {i \in 1..Len(cards_data) :
                        /\ "name" \in DOMAIN cards_data[i]
                        /\ SameButCase(cards_data[i].name, req.card_name)}
        IN  resp.body = IF hits = {} THEN "" ELSE MediumOf(cards_data[First(hits)])

NameOrEmpty(card) == IF "name" \in DOMAIN card THEN card.name ELSE <<>>

\* C7 (amended): get_card_image returns the medium icon of the first record
\* whose name, with surrounding whitespace removed, is the given name with
\* surrounding whitespace removed, but for letter case (a record without a
\* name having the empty name), and "" when there is no such record or that
\* record has no medium icon.
C7_FirstMatch ==
    Handled("get_card_image") =>
        LET hits == {i \in 1..Len(cards_data) :
                        SameButCase(Trimmed(NameOrEmpty(cards_data[i])), Trimmed(req.card_name))}
        IN  resp.body = IF hits = {} THEN "" ELSE MediumOf(cards_data[First(hits)])

C7_Witness ==
    /\ Handled("get_card_image")
    /\ req.card_name = <<"k","n","i","g","h","t">>
    /\ Len(cards_data) = 2
    /\ MediumOf(cards_data[1]) = U2
    /\ MediumOf(cards_data[2]) = U1
    /\ resp.body = U2

-----------------------------------------------------------------------------
\* C8: the catalog and the last error are written by the import-time fetch,
\* before any request is handled, and no step taken after it changes either.
C8_WrittenOnce ==
    [][ IF pc = "import"
        THEN req = NoRequest /\ resp = NoRequest
        ELSE UNCHANGED <<cards_data, last_clash_error>> ]_vars

C8_Witness ==
    /\ Handled("recommend_ai")
    /\ resp.status = 200
    /\ cards_data # <<>>
    /\ last_clash_error = None

-----------------------------------------------------------------------------
\* C9: the card API is called at most once in the life of the process; an AI
\* request sends at most one POST to the provider; one that fails ends with
\* the error and no deck, and a deck it returns is the one the provider's
\* single answer held, never one of the table.
C9_NoRetry ==
    /\ clash_gets <= 1
    /\ Handled("recommend_ai") =>
          /\ Len(llm_posts) <= 1
          /\ resp.status # 200 => "body" \notin DOMAIN resp
          /\ resp.status = 200 =>
                /\ Len(llm_posts) = 1
                /\ ~Answer.raised
                /\ Answer.value.t = "str"
                /\ HasDeckOf8(Answer.value.json)
                /\ \A i \in 1..8 : resp.body.deck[i].name = Answer.value.json.v.deck.v[i]

C9_Witness ==
    /\ Handled("recommend_ai")
    /\ clash_gets = 1
    /\ Len(llm_posts) = 1
    /\ req.outcome.kind = "response"
    /\ req.outcome.status = 429
    /\ resp.status = 500

-----------------------------------------------------------------------------
\* C10: once the import-time fetch has failed, in every later state the
\* catalog is empty, every icon resolution gives "", every baseline request
\* for a valid pair still gets its 8 names, each with an empty image, and
\* every AI request gets the 503.
C10_Degraded ==
    (pc # "import" /\ last_clash_error # None) =>
        /\ cards_data = <<>>
        /\ Handled("get_card_image") => resp.body = ""
        /\ Handled("recommend_ai") => resp.status = 503
        /\ (Handled("recommend") /\ req.input.bracket \in BracketKeys
                                 /\ req.input.style \in StyleKeys) =>
              /\ resp.status = 200
              /\ NamesOf(resp.body.deck) = TableDeck(req.input.bracket, req.input.style)
              /\ \A i \in 1..Len(resp.body.deck) : resp.body.deck[i].image = ""

C10_Witness ==
    /\ Handled("recommend")
    /\ last_clash_error # None
    /\ req.input.bracket = <<">","6","0","0","0">>
    /\ req.input.style = <<"d","e","f","e","n","s","e">>
    /\ resp.status = 200
    /\ resp.body.deck[1].image = ""

====
